---- MODULE Spec2Model ----
(***************************************************************************)
(* Chat-window lifecycle, access gate and report persistence of the        *)
(* clinician-supervised chat platform (llm_chat / report packages).        *)
(*                                                                         *)
(* Persisted state: the chat_windows rows (start_date, end_date, visible,  *)
(* status, report_config; `present` tells whether the row exists), the     *)
(* number of Report rows per window, the conversations rows that exist     *)
(* (`started`) and the number of Message rows per conversation.  `clock`   *)
(* is time.time().  `inflight` holds the requests that are between two     *)
(* of their steps.  `last` is the outcome of the most recent operation     *)
(* (return value / HTTP answer / exception), which is what a caller of     *)
(* that operation observes.                                                *)
(***************************************************************************)
EXTENDS Integers, Sequences, FiniteSets, TLC

VARIABLES clock, win, reports, started, messages, inflight, scheduler,
          generated_at, last

vars == <<clock, win, reports, started, messages, inflight, scheduler,
          generated_at, last>>

----------------------------------------------------------------------------
(* Bounds *)

MaxTime == 5
NumWindows == 2
MaxReports == 2
MaxMsgs == 2
ScriptLen == 4
MaxConfigKeys == 1
MaxLines == 1
MaxThreads == 2

Windows == 1..NumWindows
Times == 0..MaxTime

\* the Python value None for the optional argument `now`
None == -1

----------------------------------------------------------------------------
(* ChatWindow.status values and their lifecycle order *)

Statuses == {"scheduled", "active", "generating_report", "report_ready"}

TerminalStatuses == {"generating_report", "report_ready"}

Rank(s) ==
    CASE s = "scheduled" -> 0
      [] s = "active" -> 1
      [] s = "generating_report" -> 2
      [] s = "report_ready" -> 3

\* windows as create_chat_window stores them; the dates satisfy the data
\* model's start < end and leave room for a non-zero instant before start
WindowDates == {d \in (2..(MaxTime - 1)) \X (2..(MaxTime - 1)) : d[1] < d[2]}

----------------------------------------------------------------------------
(* ChatWindow.compute_status / sync_status *)

\* `now = now or time.time()`: None and 0 are both falsy in Python
EffectiveNow(now, wall) == IF now = None \/ now = 0 THEN wall ELSE now

\* compute_status without the terminal-state clause
ComputeStatusClockOnly(w, now, wall) ==
    LET n == EffectiveNow(now, wall) IN
    IF n < w.start THEN "scheduled"
    ELSE IF w.start <= n /\ n <= w.end THEN "active"
    ELSE "generating_report"

ComputeStatus(w, now, wall) ==
    LET n == EffectiveNow(now, wall) IN
    IF w.status \in {"generating_report", "report_ready"} THEN w.status
    ELSE IF n < w.start THEN "scheduled"
    ELSE IF w.start <= n /\ n <= w.end THEN "active"
    ELSE "generating_report"

\* a sync that moves the persisted status one lifecycle step at a time
SyncedWindowOneStep(w, now, wall) ==
    LET new_status == ComputeStatus(w, now, wall) IN
    IF Rank(new_status) > Rank(w.status) + 1 THEN [w EXCEPT !.status = "active"]
    ELSE IF w.status # new_status THEN [w EXCEPT !.status = new_status] ELSE w

\* the window after sync_status(now); the call returns its .status
SyncedWindow(w, now, wall) ==
    LET new_status == ComputeStatus(w, now, wall) IN
    IF w.status # new_status THEN [w EXCEPT !.status = new_status] ELSE w

----------------------------------------------------------------------------
(* Users, provider-patient assignments, conversations (fixed rows) *)

Patient == 1
Provider == 2
Admin == 3
OtherPatient == 4
OtherProvider == 5

Users == {Patient, Provider, Admin, OtherPatient, OtherProvider}

Role(u) ==
    CASE u = Admin -> "admin"
      [] u \in {Provider, OtherProvider} -> "provider"
      [] OTHER -> "user"

\* provider_patients rows <<provider_id, patient_id>>
Assignments == {<<Provider, Patient>>}

\* every window is created by Provider for Patient
WinPatient(w) == Patient
WinProvider(w) == Provider

\* conversations ids: 1 belongs to window 1, 2 has window_id NULL, 3 is
\* the conversation a template of window 2 starts
Convs == {1, 2, 3}
ConvOwner(c) == Patient
ConvWindow(c) == IF c = 1 THEN 1 ELSE IF c = 3 THEN 2 ELSE 0

\* User.can_access_patient
CanAccessPatient(u, patient_id) ==
    IF Role(u) = "admin" THEN TRUE
    ELSE IF Role(u) = "provider" THEN <<u, patient_id>> \in Assignments
    ELSE u = patient_id

----------------------------------------------------------------------------
(* ChatWindow.report_config: a JSON object, here a function from the keys  *)
(* it holds to their values                                                *)

\* COMPONENT_REGISTRY, in its iteration order
COMPONENT_REGISTRY == <<"ai_summary", "saved_messages", "descriptive_stats", "nlp_analysis">>

ComponentNames == {COMPONENT_REGISTRY[i] : i \in 1..Len(COMPONENT_REGISTRY)}

\* the keys window_report_config accepts
valid_keys == {"ai_summary", "saved_messages", "descriptive_stats", "nlp_analysis"}

\* the keys a caller can send: the four recognised ones and one more
ConfigKeys == valid_keys \cup {"cooccurrence"}

\* JSON values a caller can send for a key: true, false, a non-empty string
ConfigValues == {"true", "false", "text"}

\* Python truthiness of a JSON value
Truthy(v) == v \in {"true", "text"}

\* the column default of chat_windows.report_config
DefaultConfig == [k \in valid_keys |-> "true"]

\* the JSON objects a caller sends as a report configuration
InputConfigs ==
    UNION {[D -> ConfigValues] : D \in {K \in SUBSET ConfigKeys : Cardinality(K) <= MaxConfigKeys}}

\* config.get(name, False)
ConfigGet(config, name) == IF name \in DOMAIN config THEN config[name] ELSE "false"

----------------------------------------------------------------------------
(* UnifiedReportGenerator.save_report against a SQLAlchemy session.        *)
(* A session state s has s.db (committed window statuses), s.sess (the     *)
(* statuses of the loaded window objects, pending until commit) and        *)
(* s.reports (committed Report rows per window).                           *)

\* one commit attempt too many
max_retries_plus_one == 3 + 1

max_retries == 3

\* what one db.session.commit() does: succeed, raise OperationalError
\* 'database is locked', raise another OperationalError, raise another error
CommitOutcomes == {"ok", "locked", "operr", "err"}

\* a script fixes whether generation raises before any commit (gen_raises)
\* and the outcome of each successive commit; after the first outcome that is
\* not "locked" the remaining entries are never read, so they are "ok"
SaveScripts ==
    {[gen_raises |-> g, commits |-> c] :
        g \in {FALSE},
        c \in {f \in [1..ScriptLen -> CommitOutcomes] :
                 \A i \in 1..ScriptLen : f[i] # "locked" =>
                     \A j \in (i + 1)..ScriptLen : f[j] = "ok"}}
    \cup {[gen_raises |-> TRUE, commits |-> [i \in 1..ScriptLen |-> "ok"]]}

\* the scripts the sweep is run against, one for each way save_report can
\* end inside it: immediate success, success after a rollback, an exception
\* (here: exhausted retries)
TickScripts ==
    {sc \in SaveScripts :
        \/ ~sc.gen_raises /\ sc.commits[1] = "ok"
        \/ sc.commits[1] = "locked" /\ sc.commits[2] = "ok"
        \/ \A i \in 1..ScriptLen : sc.commits[i] = "locked"}

\* db.session.commit(): pending changes become the committed state
Commit(s) == [s EXCEPT !.db = s.sess]

\* db.session.rollback(): pending changes are discarded, objects reload
Rollback(s) == [s EXCEPT !.sess = s.db]

RECURSIVE SaveAttempt(_, _, _, _)
\* the body of `for attempt in range(max_retries)` from iteration `attempt` on
SaveAttempt(s, w, script, attempt) ==
    LET outcome == script.commits[attempt + 1] IN
    IF attempt >= max_retries
    THEN [s |-> s, raised |-> FALSE, attempts |-> attempt]
    ELSE IF outcome = "ok"
    THEN [s |-> [Commit(s) EXCEPT !.reports[w] = @ + 1],
          raised |-> FALSE, attempts |-> attempt + 1]
    ELSE IF outcome \in {"locked", "operr"}
    THEN IF outcome = "locked" /\ attempt < max_retries - 1
         THEN SaveAttempt(Rollback(s), w, script, attempt + 1)
         ELSE [s |-> Rollback(s), raised |-> TRUE, attempts |-> attempt + 1]
    ELSE [s |-> s, raised |-> TRUE, attempts |-> attempt + 1]

\* save_report(window_id): the constructor raises ValueError for a missing
\* window; otherwise generate the document, then the commit loop
SaveReport(s, w, script) ==
    LET s1 == [s EXCEPT !.generated = @ + 1] IN
    IF ~win[w].present
    THEN [s |-> s, raised |-> TRUE, attempts |-> 0]
    ELSE IF script.gen_raises
    THEN [s |-> s1, raised |-> TRUE, attempts |-> 0]
    ELSE SaveAttempt(s1, w, script, 0)

\* the session of a fresh request / scheduler pass over the persisted rows
FreshSession ==
    [db |-> [w \in Windows |-> win[w].status],
     sess |-> [w \in Windows |-> win[w].status],
     reports |-> reports,
     generated |-> 0]

----------------------------------------------------------------------------
(* finalize_expired_windows: one pass of the status/report sweep *)

\* the loop body without the existing-report check
ProcessWindowUnchecked(t, w, now, plan) ==
    LET previous_status == t.s.sess[w]
        synced == SyncedWindow([win[w] EXCEPT !.status = previous_status], now, now)
        current_status == synced.status
        t1 == [t EXCEPT !.s.sess[w] = current_status,
                        !.changed = @ \/ previous_status # current_status]
    IN
    IF current_status # "generating_report" THEN t1
    ELSE LET r == SaveReport(t1.s, w, plan[w]) IN
         IF r.raised
         THEN [t1 EXCEPT !.s = Rollback(r.s), !.attempted = @ \cup {w}, !.raised = w]
         ELSE [t1 EXCEPT !.s = [r.s EXCEPT !.sess[w] = "report_ready"],
                         !.attempted = @ \cup {w},
                         !.processed = @ \cup {w}, !.changed = TRUE]

\* the body of `for window in windows` for window w, at the pass's `now`
ProcessWindow(t, w, now, plan) ==
    LET previous_status == t.s.sess[w]
        synced == SyncedWindow([win[w] EXCEPT !.status = previous_status], now, now)
        current_status == synced.status
        t1 == [t EXCEPT !.s.sess[w] = current_status,
                        !.changed = @ \/ previous_status # current_status]
    IN
    IF current_status # "generating_report" THEN t1
    ELSE IF t1.s.reports[w] > 0
    THEN [t1 EXCEPT !.s.sess[w] = "report_ready",
                    !.processed = @ \cup {w}, !.changed = TRUE]
    ELSE LET r == SaveReport(t1.s, w, plan[w]) IN
         IF r.raised
         THEN [t1 EXCEPT !.s = Rollback(r.s), !.attempted = @ \cup {w}, !.raised = w]
         ELSE [t1 EXCEPT !.s = [r.s EXCEPT !.sess[w] = "report_ready"],
                         !.attempted = @ \cup {w},
                         !.processed = @ \cup {w}, !.changed = TRUE]

RECURSIVE ProcessWindows(_, _, _, _)
\* the loop over ChatWindow.query.all() (in id order) from window i on; an
\* exception re-raised by the except clause ends the loop
ProcessWindows(t, i, now, plan) ==
    IF i > NumWindows \/ t.raised # 0 THEN t
    ELSE IF ~win[i].present THEN ProcessWindows(t, i + 1, now, plan)
    ELSE ProcessWindows(ProcessWindow(t, i, now, plan), i + 1, now, plan)

\* the loop of a pass over a fresh session; plan[w] scripts the save_report
\* call for window w
SweepLoop(now, plan) ==
    ProcessWindows([s |-> FreshSession, changed |-> FALSE, processed |-> {},
                    attempted |-> {}, raised |-> 0], 1, now, plan)

\* the whole pass: loop, then `if changed: db.session.commit()`; when the
\* pass raises, the pending session state is dropped with the app context
FinalizeExpiredWindows(now, plan, final_ok) ==
    LET t1 == SweepLoop(now, plan)
        commits == t1.raised = 0 /\ t1.changed
    IN [status |-> IF commits /\ final_ok THEN t1.s.sess ELSE t1.s.db,
        reports |-> t1.s.reports,
        raised |-> t1.raised,
        commit_raised |-> commits /\ ~final_ok,
        attempted |-> t1.attempted,
        processed |-> t1.processed]

\* the windows a pass at `now` finds in generating_report: the only ones for
\* which it can reach save_report
ExpiredWindows(now) ==
    {w \in Windows : /\ win[w].present
                      /\ SyncedWindow(win[w], now, now).status = "generating_report"}

\* the generated_at column of the Report rows of each window, in id order,
\* once the rows counted by new_reports are stored: generate() stamps a
\* document with time.time() and save_report stores that stamp
GeneratedAt(new_reports) ==
    [w \in Windows |->
        generated_at[w] \o [i \in 1..(new_reports[w] - reports[w]) |-> clock]]

\* the threads ReportScheduler.start can create
Threads == 1..MaxThreads

----------------------------------------------------------------------------
Init ==
    /\ clock = 1
    /\ win \in [Windows -> {[present |-> TRUE, start |-> d[1], end |-> d[2], visible |-> v,
                               status |-> "scheduled", report_config |-> DefaultConfig] :
                              d \in WindowDates, v \in BOOLEAN}]
    /\ started = {1, 2}
    \* `visible` is read only for windows that a conversation references
    /\ \A w \in Windows : (\A c \in started : ConvWindow(c) # w) => win[w].visible
    /\ reports = [w \in Windows |-> 0]
    /\ messages = [c \in Convs |-> 0]
    /\ inflight = {}
    /\ scheduler = [running |-> FALSE, thread |-> 0,
                    loops |-> [t \in Threads |-> "unborn"]]
    /\ generated_at = [w \in Windows |-> <<>>]
    /\ last = [op |-> "init"]

\* time.time() moves on
Advance ==
    /\ clock < MaxTime
    /\ clock' = clock + 1
    /\ UNCHANGED <<win, reports, started, messages, inflight, last, scheduler, generated_at>>

\* window.sync_status(now) on a loaded window, for a caller-supplied now
SyncStatus(w, now) ==
    /\ win[w].present
    /\ last.op = "sync" => now >= last.now
    /\ win' = [win EXCEPT ![w] = SyncedWindow(win[w], now, clock)]
    /\ last' = [op |-> "sync", w |-> w, now |-> now,
                result |-> SyncedWindow(win[w], now, clock).status]
    /\ UNCHANGED <<clock, reports, started, messages, inflight, scheduler, generated_at>>

\* one scheduler pass at the current time
Tick ==
    \E plan \in [ExpiredWindows(clock) -> TickScripts], final_ok \in BOOLEAN :
        LET r == FinalizeExpiredWindows(clock, plan, final_ok) IN
        \* the final commit can only fail when the pass reaches it
        /\ final_ok \/ r.commit_raised
        /\ win' = [w \in Windows |-> [win[w] EXCEPT !.status = r.status[w]]]
        /\ reports' = r.reports
        /\ last' = [op |-> "tick", raised |-> r.raised, commit_raised |-> r.commit_raised,
                    attempted |-> r.attempted, processed |-> r.processed]
        /\ generated_at' = GeneratedAt(reports')
        /\ UNCHANGED <<clock, started, messages, inflight, scheduler>>

\* ReportScheduler.check_and_generate_reports: the query names
\* ChatWindow.is_active, an attribute the model class does not have, so the
\* pass raises AttributeError before it loads any window
CheckAndGenerateReports ==
    /\ last' = [op |-> "legacy_tick", raised |-> TRUE]
    /\ UNCHANGED <<clock, win, reports, started, messages, inflight, scheduler, generated_at>>

\* the role and ownership checks of the report-generation routes
MayGenerate(actor, w) ==
    /\ ~(~(Role(actor) = "provider") /\ ~(Role(actor) = "admin"))
    /\ ~(Role(actor) = "provider" /\ WinProvider(w) # actor)

\* UnifiedReportGenerator.save_report(window_id) of report/generator.py
\* called in a session of its own
SaveReportCall(w, script) ==
    /\ reports[w] < MaxReports
    /\ win[w].present \/ script.gen_raises
    /\ LET r == SaveReport(FreshSession, w, script) IN
       /\ reports' = r.s.reports
       /\ win' = [v \in Windows |-> [win[v] EXCEPT !.status = r.s.db[v]]]
       /\ last' = [op |-> "save", w |-> w, script |-> script, raised |-> r.raised,
                   attempts |-> r.attempts, generated |-> r.s.generated]
    /\ generated_at' = GeneratedAt(reports')
    /\ UNCHANGED <<clock, started, messages, inflight, scheduler>>

\* save_report of report/unified_report_generator.py, the class the report
\* routes import: generate, then a single commit without retry
LegacySaveReport(s, w, script) ==
    IF ~win[w].present \/ script.gen_raises
    THEN [s |-> s, raised |-> TRUE]
    ELSE IF script.commits[1] = "ok"
    THEN [s |-> [Commit(s) EXCEPT !.reports[w] = @ + 1], raised |-> FALSE]
    ELSE [s |-> s, raised |-> TRUE]

\* the scripts a generation request can meet: it reads the outcome of one
\* commit; a refused request reads none
RequestScripts(actor, w) ==
    IF MayGenerate(actor, w) /\ win[w].present
    THEN {sc \in SaveScripts : \A i \in 2..ScriptLen : sc.commits[i] = "ok"}
    ELSE {sc \in SaveScripts : sc.gen_raises}

\* POST /window/<id>/generate-unified: save_report without a prior check
GenerateUnifiedWindowReport(actor, w, script) ==
    /\ MayGenerate(actor, w) /\ win[w].present => reports[w] < MaxReports
    /\ IF Role(actor) \notin {"provider", "admin"}
       THEN /\ last' = [op |-> "generate", w |-> w, code |-> 403]
            /\ UNCHANGED <<win, reports>>
       ELSE IF ~win[w].present
       THEN /\ last' = [op |-> "generate", w |-> w, code |-> 404]
            /\ UNCHANGED <<win, reports>>
       ELSE IF ~MayGenerate(actor, w)
       THEN /\ last' = [op |-> "generate", w |-> w, code |-> 403]
            /\ UNCHANGED <<win, reports>>
       ELSE LET r == LegacySaveReport(FreshSession, w, script) IN
            /\ reports' = r.s.reports
            /\ win' = [v \in Windows |-> [win[v] EXCEPT !.status = r.s.db[v]]]
            /\ last' = [op |-> "generate", w |-> w, code |-> IF r.raised THEN 500 ELSE 200]
    /\ generated_at' = GeneratedAt(reports')
    /\ UNCHANGED <<clock, started, messages, inflight, scheduler>>

\* a stale gate: trusts the persisted status instead of computing it
WindowClosedPersisted(c) ==
    /\ ConvWindow(c) # 0
    /\ ConvWindow(c) \in Windows
    /\ win[ConvWindow(c)].present
    /\ LET window == win[ConvWindow(c)]
           status == window.status
       IN ~window.visible \/ status # "active"

\* send_message's "conversation belongs to an expired window" check
WindowClosed(c) ==
    /\ ConvWindow(c) # 0
    /\ ConvWindow(c) \in Windows
    /\ win[ConvWindow(c)].present
    /\ LET window == win[ConvWindow(c)]
           status == ComputeStatus(window, None, clock)
       IN ~window.visible \/ status # "active"

\* verdicts of the provider-settings checks: none applies, outside the
\* allowed chat hours, daily message limit reached
SendLimits == {"pass", "hours", "limit"}

\* POST /api/conversation/<id>/message; `limits` is the verdict of the
\* provider-settings checks (chat hours, daily limit), which are made for a
\* patient who has a provider assignment
SendMessage(actor, c, limits) ==
    LET owner == ConvOwner(c)
        denied == owner # actor /\ ~CanAccessPatient(actor, owner)
        expired == WindowClosed(c)
        limited == /\ Role(actor) = "user"
                   /\ \E a \in Assignments : a[2] = actor
                   /\ limits # "pass"
        code == IF denied \/ expired \/ limited THEN 403 ELSE 200
    IN
    \* get_or_404: a request for a conversation that does not exist ends here
    /\ c \in started
    /\ code = 200 => messages[c] + 2 <= MaxMsgs
    /\ messages' = IF code = 200 THEN [messages EXCEPT ![c] = @ + 2] ELSE messages
    /\ last' = [op |-> "send", code |-> code]
    /\ UNCHANGED <<clock, win, reports, started, inflight, scheduler, generated_at>>

\* current_user.can_access_patient(patient_id), asked by some route
CanAccessPatientCall(actor, patient_id) ==
    /\ last' = [op |-> "access", actor |-> actor, patient_id |-> patient_id,
                result |-> CanAccessPatient(actor, patient_id)]
    /\ UNCHANGED <<clock, win, reports, started, messages, inflight, scheduler, generated_at>>

\* window.compute_status(now) on a loaded window, for a caller-supplied now
ComputeStatusCall(w, now) ==
    /\ win[w].present
    /\ last' = [op |-> "compute", w |-> w, now |-> now,
                result |-> ComputeStatus(win[w], now, clock)]
    /\ UNCHANGED <<clock, win, reports, started, messages, inflight, scheduler, generated_at>>

\* the dates a caller sends when creating or editing a window
InputDates == {1, MaxTime - 2}

\* JSON bodies of window edits: dates, visibility, report configuration
DateUpdates ==
    {[start_date |-> d] : d \in InputDates}
    \cup {[end_date |-> d] : d \in InputDates}
    \cup {[start_date |-> a, end_date |-> b] : a \in InputDates, b \in InputDates}

\* edits that move the end of the window
EndDateUpdates == {d \in DateUpdates : DOMAIN d = {"end_date"}}

VisibleUpdates == {[visible |-> b] : b \in BOOLEAN}

ConfigUpdates == {[report_config |-> cfg] : cfg \in InputConfigs}

\* the chat_windows slot of an id that has no row
NoRow ==
    [present |-> FALSE, start |-> 0, end |-> 0, visible |-> TRUE,
     status |-> "scheduled", report_config |-> DefaultConfig]

\* POST /api/chat-windows/ with the dates and report_config of the body;
\* the new row takes the free id w
CreateChatWindow(actor, patient_id, w, start_date, end_date, report_config) ==
    LET code == IF Role(actor) # "provider" THEN 403
                ELSE IF ~CanAccessPatient(actor, patient_id) THEN 403
                ELSE 200
        window == [present |-> TRUE, start |-> start_date, end |-> end_date,
                   visible |-> TRUE, status |-> "scheduled",
                   report_config |-> IF DOMAIN report_config # {}
                                     THEN report_config ELSE DefaultConfig]
    IN
    /\ ~win[w].present
    /\ \A v \in Windows : v < w => win[v].present
    /\ reports[w] = 0
    /\ win' = IF code = 200
              THEN [win EXCEPT ![w] =
                       [window EXCEPT !.status = ComputeStatus(window, None, clock)]]
              ELSE win
    /\ last' = [op |-> "create", code |-> code]
    /\ UNCHANGED <<clock, reports, started, messages, inflight, scheduler, generated_at>>

\* PUT /api/chat-windows/<id> with the JSON body `data`
UpdateChatWindow(actor, w, data) ==
    LET code == IF Role(actor) # "provider" THEN 403
                ELSE IF ~win[w].present THEN 404
                ELSE IF WinProvider(w) # actor THEN 403
                ELSE 200
        F == DOMAIN data
        r0 == win[w]
        r1 == IF "start_date" \in F THEN [r0 EXCEPT !.start = data.start_date] ELSE r0
        r2 == IF "end_date" \in F THEN [r1 EXCEPT !.end = data.end_date] ELSE r1
        r3 == IF "visible" \in F THEN [r2 EXCEPT !.visible = data.visible] ELSE r2
        r4 == IF "report_config" \in F /\ DOMAIN data.report_config # {}
              THEN [r3 EXCEPT !.report_config = data.report_config] ELSE r3
    IN
    /\ win' = IF code = 200 THEN [win EXCEPT ![w] = r4] ELSE win
    /\ last' = [op |-> "update", code |-> code]
    /\ UNCHANGED <<clock, reports, started, messages, inflight, scheduler, generated_at>>

\* DELETE /api/chat-windows/<id> up to the point where it has found no
\* conversation of the window (the count at line 246 and the unit of work's
\* own look for dependent rows): a window with conversations is deactivated
\* and the request is done, otherwise the DELETE is still to be issued
DeleteChatWindowCheck(actor, w) ==
    LET code == IF Role(actor) # "provider" THEN 403
                ELSE IF ~win[w].present THEN 404
                ELSE IF WinProvider(w) # actor THEN 403
                ELSE 200
        has_conversations == \E c \in started : ConvWindow(c) = w
    IN
    /\ [op |-> "delete", id |-> w] \notin inflight
    /\ win' = IF code = 200 /\ has_conversations
              THEN [win EXCEPT ![w].visible = FALSE] ELSE win
    /\ inflight' = IF code = 200 /\ ~has_conversations
                   THEN inflight \cup {[op |-> "delete", id |-> w]} ELSE inflight
    /\ last' = [op |-> "delete", code |-> code]
    /\ UNCHANGED <<clock, reports, started, messages, scheduler, generated_at>>

\* the DELETE and commit of delete_chat_window: the row is gone; rows that
\* point at it and were inserted after the check keep their window_id
\* (SQLite does not enforce the foreign key)
DeleteChatWindowCommit(w) ==
    /\ [op |-> "delete", id |-> w] \in inflight
    /\ win' = [win EXCEPT ![w] = NoRow]
    /\ inflight' = inflight \ {[op |-> "delete", id |-> w]}
    /\ last' = [op |-> "deleted", code |-> 200]
    /\ UNCHANGED <<clock, reports, started, messages, scheduler, generated_at>>

\* POST /api/chat-windows/start_conversation for the template that starts
\* conversation c
StartConversationFromTemplate(actor, c) ==
    LET w == ConvWindow(c)
        code == IF Role(actor) # "user" THEN 403
                ELSE IF ~win[w].present THEN 404
                ELSE IF WinPatient(w) # actor
                        \/ ComputeStatus(win[w], None, clock) # "active" THEN 403
                ELSE 200
    IN
    /\ w \in Windows
    /\ started' = IF code = 200 THEN started \cup {c} ELSE started
    /\ last' = [op |-> "start", code |-> code]
    /\ UNCHANGED <<clock, win, reports, messages, inflight, scheduler, generated_at>>

\* send_message up to its LLM call: the access check, the window gate and
\* the provider-settings checks; a request that passes them waits for
\* LLMInterface.call_llm with nothing committed yet
SendMessageBegin(actor, c, limits) ==
    LET owner == ConvOwner(c)
        denied == owner # actor /\ ~CanAccessPatient(actor, owner)
        expired == WindowClosed(c)
        limited == /\ Role(actor) = "user"
                   /\ \E a \in Assignments : a[2] = actor
                   /\ limits # "pass"
        code == IF denied \/ expired \/ limited THEN 403 ELSE 200
    IN
    /\ c \in started
    /\ [op |-> "send", id |-> c] \notin inflight
    /\ code = 200 => messages[c] + 2 <= MaxMsgs
    /\ inflight' = IF code = 200 THEN inflight \cup {[op |-> "send", id |-> c]} ELSE inflight
    /\ last' = [op |-> "send_begin", code |-> code]
    /\ UNCHANGED <<clock, win, reports, started, messages, scheduler, generated_at>>

\* send_message after call_llm has returned: the user message and the
\* assistant reply are stored and committed (lines 351-364)
SendMessageFinish(c) ==
    /\ [op |-> "send", id |-> c] \in inflight
    /\ messages' = [messages EXCEPT ![c] = @ + 2]
    /\ inflight' = inflight \ {[op |-> "send", id |-> c]}
    /\ last' = [op |-> "send", code |-> 200]
    /\ UNCHANGED <<clock, win, reports, started, scheduler, generated_at>>

----------------------------------------------------------------------------
(* Report generation: LLMInterface.call_llm, the AI summary component and  *)
(* UnifiedReportGenerator.generate of report/generator.py.  A text is a    *)
(* sequence of lines; a Python dict is a record; None is PyNone.           *)

PyNone == [none |-> TRUE]

\* the text call_llm returns when the provider call raises or times out
\* (`result = f"Error calling {model.provider}: {str(e)}"`)
ErrorLine == "Error calling local: timed out"

\* the lines a model response is made of
Lines == {"SUMMARY:", "THEMES:", "PROGRESS NOTES:", "- theme", "words", "", ErrorLine}

\* a response in the format the prompt asks for
WellFormedResponse ==
    <<"SUMMARY:", "words", "THEMES:", "- theme", "PROGRESS NOTES:", "words">>

\* the response texts of a call that succeeds
ResponseTexts ==
    UNION {[1..n -> Lines] : n \in 0..MaxLines} \cup {WellFormedResponse}

\* LLMInterface.call_llm: every exception of the provider call is turned
\* into a result text
CallLLM(outcome, text) == IF outcome = "ok" THEN text ELSE <<ErrorLine>>

RECURSIVE ParseLines(_, _, _, _)
\* the loop of _parse_ai_response from line i on, in section `section`
ParseLines(lines, i, section, acc) ==
    IF i > Len(lines) THEN acc
    ELSE LET line == lines[i] IN
         IF line = "SUMMARY:" THEN ParseLines(lines, i + 1, "summary", acc)
         ELSE IF line = "THEMES:" THEN ParseLines(lines, i + 1, "themes", acc)
         ELSE IF line = "PROGRESS NOTES:" THEN ParseLines(lines, i + 1, "progress", acc)
         ELSE IF section = "summary" /\ line # ""
         THEN ParseLines(lines, i + 1, section,
                         [acc EXCEPT !.summary = Append(@, line)])
         ELSE IF section = "themes" /\ line = "- theme"
         THEN ParseLines(lines, i + 1, section,
                         [acc EXCEPT !.themes = Append(@, "theme")])
         ELSE IF section = "progress" /\ line # ""
         THEN ParseLines(lines, i + 1, section,
                         [acc EXCEPT !.progress_notes = Append(@, line)])
         ELSE ParseLines(lines, i + 1, section, acc)

\* AISummaryComponent._parse_ai_response
ParseAiResponse(response_text, model_name) ==
    ParseLines(response_text, 1, "none",
               [summary |-> <<>>, themes |-> <<>>, progress_notes |-> <<>>,
                generated_with |-> model_name])

\* AISummaryComponent.generate: it never raises; run.model tells whether
\* _select_llama_model finds a model, run.ai_raises whether a step inside
\* its try block raises, run.llm and run.text what the provider call does
AiSummaryGenerate(has_messages, run) ==
    IF ~has_messages
    THEN [summary |-> <<"No messages to summarize.">>, themes |-> <<>>,
          progress_notes |-> <<>>, generated_with |-> "No model"]
    ELSE IF run.model = "none" THEN PyNone
    ELSE IF run.ai_raises
    THEN [summary |-> <<"Error generating AI summary: ", "exception">>,
          themes |-> <<>>, progress_notes |-> <<>>, error |-> "exception"]
    ELSE ParseAiResponse(CallLLM(run.llm, run.text), "llama")

\* what the environment does to one generation: the component whose
\* constructor (its _load_data queries) raises, the component whose
\* generate() raises, and the inputs of AiSummaryGenerate; parts that are
\* never read have one fixed value
Runs ==
    {run \in [load_fails : ComponentNames \cup {"none"},
              gen_fails : (ComponentNames \ {"ai_summary"}) \cup {"none"},
              model : {"none", "llama"},
              ai_raises : BOOLEAN,
              llm : {"ok", "fails"},
              text : ResponseTexts] :
        /\ run.load_fails # "none" =>
               run.gen_fails = "none" /\ run.model = "none"
        /\ run.model = "none" => ~run.ai_raises
        /\ run.model = "none" \/ run.ai_raises => run.llm = "ok"
        /\ run.model = "none" \/ run.ai_raises \/ run.llm = "fails" => run.text = <<>>}

\* the messages of the conversations of window w
WindowHasMessages(w) == \E c \in started : ConvWindow(c) = w /\ messages[c] > 0

\* component.generate() of the named component inside generate's try block
ComponentSlot(name, w, run) ==
    IF run.gen_fails = name THEN [error |-> name]
    ELSE IF name = "ai_summary" THEN AiSummaryGenerate(WindowHasMessages(w), run)
    ELSE [data |-> name]

\* UnifiedReportGenerator(window_id).generate(): the constructor raises for
\* a missing window, get_all_components builds all four components before
\* the loop, and the loop runs the components whose config value is truthy
Generate(w, run) ==
    LET config == win[w].report_config
        enabled == {name \in ComponentNames : Truthy(ConfigGet(config, name))}
    IN
    IF ~win[w].present \/ run.load_fails # "none"
    THEN [raised |-> TRUE, components |-> <<>>]
    ELSE [raised |-> FALSE,
          components |-> [name \in enabled |-> ComponentSlot(name, w, run)]]

\* one call of generate() for window w
GenerateDocument(w, run) ==
    LET doc == Generate(w, run) IN
    /\ win[w].present
    /\ run.model = "none" \/ ~WindowHasMessages(w) =>
           run.model = "none" /\ ~run.ai_raises /\ run.llm = "ok" /\ run.text = <<>>
    /\ last' = [op |-> "document", w |-> w, raised |-> doc.raised,
                components |-> doc.components,
                load_fails |-> run.load_fails, gen_fails |-> run.gen_fails,
                model |-> run.model, ai_raises |-> run.ai_raises, llm |-> run.llm]
    /\ UNCHANGED <<clock, win, reports, started, messages, inflight, scheduler, generated_at>>

\* PUT /api/reports/window/<id>/config with body {"config": config}
WindowReportConfig(actor, w, config) ==
    LET code == IF Role(actor) \notin {"provider", "admin"} THEN 403
                ELSE IF ~win[w].present THEN 404
                ELSE IF Role(actor) = "provider" /\ WinProvider(w) # actor THEN 403
                ELSE 200
        kept == [k \in DOMAIN config \cap valid_keys |-> config[k]]
    IN
    /\ win' = IF code = 200 THEN [win EXCEPT ![w].report_config = kept] ELSE win
    /\ last' = [op |-> "config", code |-> code]
    /\ UNCHANGED <<clock, reports, started, messages, inflight, scheduler, generated_at>>

----------------------------------------------------------------------------

----------------------------------------------------------------------------
(* Python float arithmetic (IEEE 754 binary64, round to nearest, ties to   *)
(* even) on the values the sentiment percentages take.  A positive float   *)
(* is [m, e]: m its significand as Precision bits, most significant first  *)
(* (m[1] = 1), e the exponent of the last bit; its value is m * 2^e.       *)
(* Binary numbers are sequences of bits, worked on 12 bits at a time.      *)

\* bits of the significand of a Python float
Precision == 53

ZeroFloat == [m |-> <<>>, e |-> 0]

Zeros(n) == [i \in 1..n |-> 0]

RECURSIVE ToBits(_)
\* a natural number in binary, without leading zeros
ToBits(v) == IF v = 0 THEN <<>> ELSE Append(ToBits(v \div 2), v % 2)

RECURSIVE BitsToInt(_)
\* the number a short sequence of bits stands for
BitsToInt(bits) ==
    IF bits = <<>> THEN 0
    ELSE 2 * BitsToInt(SubSeq(bits, 1, Len(bits) - 1)) + bits[Len(bits)]

\* the low 12 bits of a binary number and the bits above them
LowBits(bits) == SubSeq(bits, IF Len(bits) > 12 THEN Len(bits) - 11 ELSE 1, Len(bits))
HighBits(bits) == SubSeq(bits, 1, IF Len(bits) > 12 THEN Len(bits) - 12 ELSE 0)

\* v < 2^12 as exactly 12 bits
LowChunk(v) == Zeros(12 - Len(ToBits(v))) \o ToBits(v)

\* bits + 1: the sum's low Len(bits) bits and the carry out of them
IncBits(bits) ==
    LET Z == {i \in 1..Len(bits) : bits[i] = 0} IN
    IF Z = {} THEN [bits |-> Zeros(Len(bits)), carry |-> 1]
    ELSE LET j == CHOOSE i \in Z : \A h \in Z : h <= i IN
         [bits |-> [i \in 1..Len(bits) |->
                       IF i < j THEN bits[i] ELSE IF i = j THEN 1 ELSE 0],
          carry |-> 0]

\* round the number bits * 2^e (bits[1] = 1; `sticky` tells whether a
\* non-zero part below the last bit was cut off) to a float
RoundBits(bits, sticky, e) ==
    LET L == Len(bits) IN
    IF L <= Precision
    THEN [m |-> bits \o Zeros(Precision - L), e |-> e - (Precision - L)]
    ELSE LET keep == SubSeq(bits, 1, Precision)
             guard == bits[Precision + 1]
             below == sticky \/ \E i \in (Precision + 2)..L : bits[i] = 1
             up == guard = 1 /\ (below \/ keep[Precision] = 1)
             inc == IncBits(keep)
             e1 == e + (L - Precision)
         IN IF ~up THEN [m |-> keep, e |-> e1]
            ELSE IF inc.carry = 1
            THEN [m |-> <<1>> \o Zeros(Precision - 1), e |-> e1 + 1]
            ELSE [m |-> inc.bits, e |-> e1]

RECURSIVE Pow2Mod(_, _)
\* 2^i mod n
Pow2Mod(i, n) ==
    IF i <= 12 THEN (2 ^ i) % n
    ELSE (Pow2Mod(i \div 2, n) * Pow2Mod(i - (i \div 2), n)) % n

\* the remainder of a long division by n after `count` further quotient
\* bits, starting from remainder r
Remainder(r, n, count) == (r * Pow2Mod(count, n)) % n

\* the next `count` quotient bits of that division
QuotientBits(r, n, count) ==
    [i \in 1..count |-> IF 2 * Remainder(r, n, i - 1) >= n THEN 1 ELSE 0]

\* the least s with k * 2^s >= n, for 0 < k <= n
LeadShift(k, n) ==
    CHOOSE s \in 0..n : k * (2 ^ s) >= n /\ (s = 0 \/ k * (2 ^ (s - 1)) < n)

\* k / n for integers 0 <= k <= n, n > 0: Python's true division
TrueDiv(k, n) ==
    IF k = 0 THEN ZeroFloat
    ELSE LET s == LeadShift(k, n)
             r == k * (2 ^ s) - n
         IN RoundBits(<<1>> \o QuotientBits(r, n, Precision),
                      Remainder(r, n, Precision) # 0, (0 - s) - Precision)

RECURSIVE MulBits(_, _, _)
\* bits * c + carry * 2^Len(bits) in binary, for a small multiplier c
MulBits(bits, c, carry) ==
    LET t == BitsToInt(LowBits(bits)) * c + carry IN
    IF Len(bits) <= 12 THEN ToBits(t)
    ELSE MulBits(HighBits(bits), c, t \div (2 ^ 12)) \o LowChunk(t % (2 ^ 12))

\* f * c for a float f and a small positive integer c
MulFloat(f, c) ==
    IF f.m = <<>> THEN ZeroFloat ELSE RoundBits(MulBits(f.m, c, 0), FALSE, f.e)

----------------------------------------------------------------------------
(* The Message rows a report component loads for its window, and the       *)
(* Descriptive Stats and NLP Analysis components.  A row is [role, day,    *)
(* words, polarity]: the calendar day of its timestamp, the number of      *)
(* words of its content, and the TextBlob polarity of the content in       *)
(* hundredths.  The averages, the voice and keyword analysis are left out. *)

MaxExchanges == 3
MaxResponseLines == 7

\* send_message is the only writer of Message rows: each request stores a
\* 'user' row and then, not earlier in time, an 'assistant' row
Exchanges(days, words, polarities) ==
    {<<[role |-> "user", day |-> d1, words |-> n, polarity |-> p],
       [role |-> "assistant", day |-> d2, words |-> 1, polarity |-> 0]>> :
        <<d1, d2, n, p>> \in {q \in days \X days \X words \X polarities : q[1] <= q[2]}}

\* the rows of a window after up to MaxExchanges requests
MessageRows(days, words, polarities) ==
    UNION {{[i \in 1..(2 * n) |-> f[(i + 1) \div 2][2 - (i % 2)]] :
               f \in [1..n -> Exchanges(days, words, polarities)]} :
           n \in 0..MaxExchanges}

\* a count that takes equal rows for one
CountRoleDistinct(rows, role) ==
    Cardinality({rows[i] : i \in {j \in 1..Len(rows) : rows[j].role = role}})

\* len([m for m in self.messages if m.role == role])
CountRole(rows, role) == Cardinality({i \in 1..Len(rows) : rows[i].role = role})

RECURSIVE SumWords(_, _)
\* sum(len(m.content.split()) for the rows of the role)
SumWords(rows, role) ==
    IF rows = <<>> THEN 0
    ELSE (IF rows[1].role = role THEN rows[1].words ELSE 0)
         + SumWords(SubSeq(rows, 2, Len(rows)), role)

\* the messages_by_day dict: for every day that has a row, the number of
\* its rows of each role
MessagesByDay(rows) ==
    [d \in {rows[i].day : i \in 1..Len(rows)} |->
        [user |-> CountRole(SelectSeq(rows, LAMBDA m : m.day = d), "user"),
         assistant |-> CountRole(SelectSeq(rows, LAMBDA m : m.day = d), "assistant")]]

\* DescriptiveStatsComponent.generate
DescriptiveStats(rows) ==
    IF rows = <<>>
    THEN [user_messages |-> 0, assistant_messages |-> 0, total_messages |-> 0,
          total_words |-> 0, messages_by_day |-> <<>>]
    ELSE [user_messages |-> CountRole(rows, "user"),
          assistant_messages |-> CountRole(rows, "assistant"),
          total_messages |-> Len(rows),
          total_words |-> SumWords(rows, "user") + SumWords(rows, "assistant"),
          messages_by_day |-> MessagesByDay(rows)]

\* a percentage computed with floor division
PercentageFloorDiv(k, n) == MulFloat(TrueDiv((k \div n) * n, n), 100)

\* `count / len(sentiments) * 100`
Percentage(k, n) == MulFloat(TrueDiv(k, n), 100)

\* SentimentAnalyzer.analyze on the polarities of the texts
SentimentAnalyze(polarities) ==
    LET n == Len(polarities)
        positive_msgs == Cardinality({i \in 1..n : polarities[i] > 10})
        negative_msgs == Cardinality({i \in 1..n : polarities[i] < 0 - 10})
        neutral_msgs == n - positive_msgs - negative_msgs
    IN
    IF n = 0
    THEN [sentiment_distribution |-> [positive |-> 0, neutral |-> 0, negative |-> 0],
          sentiment_percentages |->
              [positive |-> ZeroFloat, neutral |-> ZeroFloat, negative |-> ZeroFloat]]
    ELSE [sentiment_distribution |->
              [positive |-> positive_msgs, neutral |-> neutral_msgs,
               negative |-> negative_msgs],
          sentiment_percentages |->
              [positive |-> Percentage(positive_msgs, n),
               neutral |-> Percentage(neutral_msgs, n),
               negative |-> Percentage(negative_msgs, n)]]

\* NLPAnalysisComponent.generate
NlpAnalysis(rows) ==
    LET user_messages == SelectSeq(rows, LAMBDA m : m.role = "user")
        sentiment_results ==
            SentimentAnalyze([i \in 1..Len(user_messages) |-> user_messages[i].polarity])
    IN
    IF user_messages = <<>>
    THEN [sentiment_distribution |-> [positive |-> 0, neutral |-> 0, negative |-> 0],
          sentiment_percentages |->
              [positive |-> ZeroFloat, neutral |-> ZeroFloat, negative |-> ZeroFloat],
          message_count |-> 0]
    ELSE [sentiment_distribution |-> sentiment_results.sentiment_distribution,
          sentiment_percentages |-> sentiment_results.sentiment_percentages,
          message_count |-> Len(user_messages)]

\* the rows the statistics are computed for: two days, short contents
StatsRows == MessageRows({1, 2}, {1, 2}, {0})

\* the rows the sentiment analysis is computed for: polarities on both
\* sides of the thresholds 0.1 and -0.1 and on them
NlpRows == MessageRows({1}, {1}, {0 - 50, 0 - 10, 0, 10, 50})

\* ReportComponent.__init__ / _load_data: a component is constructed and
\* holds the Message rows of its window's conversations
LoadData(rows) ==
    /\ last' = [op |-> "loaded", rows |-> rows]
    /\ UNCHANGED <<clock, win, reports, started, messages, inflight, scheduler, generated_at>>

\* DescriptiveStatsComponent.generate() of the constructed component
DescriptiveStatsGenerate ==
    /\ last.op = "loaded"
    /\ last' = [op |-> "stats", rows |-> last.rows,
                result |-> DescriptiveStats(last.rows)]
    /\ UNCHANGED <<clock, win, reports, started, messages, inflight, scheduler, generated_at>>

\* NLPAnalysisComponent.generate() of the constructed component
NlpAnalysisGenerate ==
    /\ last.op = "loaded"
    /\ last' = [op |-> "nlp", rows |-> last.rows, result |-> NlpAnalysis(last.rows)]
    /\ UNCHANGED <<clock, win, reports, started, messages, inflight, scheduler, generated_at>>

----------------------------------------------------------------------------
(* The report document as Python values and its JSON form.  A Python value *)
(* is a record with one field that names its type: [none], [int], [float], *)
(* [str], [list], [tuple], [dict] (a dict with str keys is a function from *)
(* its keys).  A JSON text is given by the value it denotes: [null],       *)
(* [number] (an integer literal or a float literal), [string], [array],    *)
(* [object].                                                               *)

PyInt(i) == [int |-> i]
PyFloat(f) == [float |-> f]
PyStr(s) == [str |-> s]
PyList(s) == [list |-> s]
PyDict(f) == [dict |-> f]

RECURSIVE JsonDumpsDropNull(_)
\* a serialiser that leaves out the dict entries whose value is None
JsonDumpsDropNull(v) ==
    IF "none" \in DOMAIN v THEN [null |-> TRUE]
    ELSE IF "int" \in DOMAIN v THEN [number |-> [int |-> v.int]]
    ELSE IF "float" \in DOMAIN v THEN [number |-> [repr |-> v.float]]
    ELSE IF "str" \in DOMAIN v THEN [string |-> v.str]
    ELSE IF "list" \in DOMAIN v
    THEN [array |-> [i \in 1..Len(v.list) |-> JsonDumpsDropNull(v.list[i])]]
    ELSE IF "tuple" \in DOMAIN v
    THEN [array |-> [i \in 1..Len(v.tuple) |-> JsonDumpsDropNull(v.tuple[i])]]
    ELSE [object |-> [k \in {h \in DOMAIN v.dict : "none" \notin DOMAIN v.dict[h]} |->
                         JsonDumpsDropNull(v.dict[k])]]

RECURSIVE JsonDumps(_)
\* json.dumps: None is null, an int its decimal literal, a float its repr,
\* a list and a tuple alike an array, a dict an object
JsonDumps(v) ==
    IF "none" \in DOMAIN v THEN [null |-> TRUE]
    ELSE IF "int" \in DOMAIN v THEN [number |-> [int |-> v.int]]
    ELSE IF "float" \in DOMAIN v THEN [number |-> [repr |-> v.float]]
    ELSE IF "str" \in DOMAIN v THEN [string |-> v.str]
    ELSE IF "list" \in DOMAIN v
    THEN [array |-> [i \in 1..Len(v.list) |-> JsonDumps(v.list[i])]]
    ELSE IF "tuple" \in DOMAIN v
    THEN [array |-> [i \in 1..Len(v.tuple) |-> JsonDumps(v.tuple[i])]]
    ELSE [object |-> [k \in DOMAIN v.dict |-> JsonDumps(v.dict[k])]]

RECURSIVE JsonLoads(_)
\* json.loads: null is None, an integer literal an int, a float literal
\* the float of that repr, an array a list, an object a dict
JsonLoads(j) ==
    IF "null" \in DOMAIN j THEN PyNone
    ELSE IF "number" \in DOMAIN j
    THEN IF "int" \in DOMAIN j.number THEN PyInt(j.number.int)
         ELSE PyFloat(j.number.repr)
    ELSE IF "string" \in DOMAIN j THEN PyStr(j.string)
    ELSE IF "array" \in DOMAIN j
    THEN PyList([i \in 1..Len(j.array) |-> JsonLoads(j.array[i])])
    ELSE PyDict([k \in DOMAIN j.object |-> JsonLoads(j.object[k])])

\* the dict AISummaryComponent.generate returns (or None)
PyAiSummary(slot) ==
    IF slot = PyNone THEN PyNone
    ELSE PyDict([k \in DOMAIN slot |->
                    IF k = "themes"
                    THEN PyList([i \in 1..Len(slot.themes) |-> PyStr(slot.themes[i])])
                    ELSE PyStr(slot[k])])

\* the key strftime('%Y-%m-%d') gives for a day
DayKey(d) == ToString(d)

\* the dict DescriptiveStatsComponent.generate returns
PyStats(s) ==
    PyDict([user_messages |-> PyInt(s.user_messages),
            assistant_messages |-> PyInt(s.assistant_messages),
            total_messages |-> PyInt(s.total_messages),
            total_words |-> PyInt(s.total_words),
            messages_by_day |->
                PyDict([k \in {DayKey(d) : d \in DOMAIN s.messages_by_day} |->
                           LET d == CHOOSE x \in DOMAIN s.messages_by_day : DayKey(x) = k IN
                           PyDict([user |-> PyInt(s.messages_by_day[d].user),
                                   assistant |-> PyInt(s.messages_by_day[d].assistant)])])])

\* the dict NLPAnalysisComponent.generate returns: the percentages are
\* floats when there are user messages and the int 0 otherwise
PyNlp(r) ==
    PyDict([sentiment_distribution |->
                PyDict([k \in DOMAIN r.sentiment_distribution |->
                           PyInt(r.sentiment_distribution[k])]),
            sentiment_percentages |->
                PyDict([k \in DOMAIN r.sentiment_percentages |->
                           IF r.message_count = 0 THEN PyInt(0)
                           ELSE PyFloat(r.sentiment_percentages[k])]),
            message_count |-> PyInt(r.message_count)])

\* the value generate() stores under a component's name, for the Message
\* rows the components loaded (no saved selection exists)
PyComponent(name, slot, rows) ==
    IF name = "ai_summary" THEN PyAiSummary(slot)
    ELSE IF "error" \in DOMAIN slot THEN PyDict([error |-> PyStr(slot.error)])
    ELSE IF name = "descriptive_stats" THEN PyStats(DescriptiveStats(rows))
    ELSE IF name = "nlp_analysis" THEN PyNlp(NlpAnalysis(rows))
    ELSE PyDict([selections |-> PyList(<<>>), total_count |-> PyInt(0)])

\* the report_data dict of generate(): metadata and the components map
PyDocument(w, components, rows) ==
    PyDict([window_id |-> PyInt(w),
            patient_id |-> PyInt(WinPatient(w)),
            provider_id |-> PyInt(WinProvider(w)),
            start_date |-> PyFloat(win[w].start),
            end_date |-> PyFloat(win[w].end),
            generated_at |-> PyFloat(clock),
            components |-> PyDict([name \in DOMAIN components |->
                                      PyComponent(name, components[name], rows)])])

\* the Message rows window w can hold: as many as its conversations count
WindowRows(w, candidates) ==
    LET C == {c \in started : ConvWindow(c) = w} IN
    {rows \in candidates :
        \/ C = {} /\ rows = <<>>
        \/ \E c \in C : C = {c} /\ Len(rows) = messages[c]}

\* save_report(window_id) of report/generator.py in a session of its own,
\* with the document it generates and serialises into Report.report_data
SaveReportDocument(w, script, run, rows) ==
    LET doc == Generate(w, run)
        r == SaveReport(FreshSession, w, script)
        failed == doc.raised \/ r.raised
        document == PyDocument(w, doc.components, rows)
    IN
    /\ reports[w] < MaxReports
    /\ win[w].present
    /\ run.model = "none" \/ ~WindowHasMessages(w) =>
           run.model = "none" /\ ~run.ai_raises /\ run.llm = "ok" /\ run.text = <<>>
    /\ doc.raised <=> script.gen_raises
    /\ reports' = IF failed THEN reports ELSE r.s.reports
    /\ win' = [v \in Windows |-> [win[v] EXCEPT !.status = r.s.db[v]]]
    /\ last' = IF failed THEN [op |-> "save_document", w |-> w, raised |-> TRUE]
               ELSE [op |-> "save_document", w |-> w, raised |-> FALSE,
                     document |-> document, report_data |-> JsonDumps(document)]
    /\ generated_at' = GeneratedAt(reports')
    /\ UNCHANGED <<clock, started, messages, inflight, scheduler>>

\* GET /api/reports/html/<id> for the Report just saved, up to the call of
\* the renderer: report_data is parsed and handed to render_html
GetReportHtml(actor) ==
    /\ last.op = "save_document" /\ ~last.raised
    /\ LET denied == \/ Role(actor) = "user" /\ WinPatient(last.w) # actor
                     \/ Role(actor) = "provider" /\ WinProvider(last.w) # actor
       IN last' = IF denied THEN [op |-> "html", code |-> 403]
                  ELSE [op |-> "html", code |-> 200, document |-> last.document,
                        report_data |-> JsonLoads(last.report_data)]
    /\ UNCHANGED <<clock, win, reports, started, messages, inflight, scheduler, generated_at>>

\* the number of themes the prompt asks the model for ("list up to 5")
MaxThemes == 5

\* the lines of a response that matter to the themes section
ThemeLines == {"THEMES:", "- theme", "words"}

\* response texts of up to MaxResponseLines lines
ThemeTexts == UNION {[1..n -> ThemeLines] : n \in 0..MaxResponseLines}

\* LLMInterface.call_llm returns `text` to AISummaryComponent.generate
ReceiveResponse(text) ==
    /\ last' = [op |-> "response", text |-> text]
    /\ UNCHANGED <<clock, win, reports, started, messages, inflight, scheduler, generated_at>>

\* AISummaryComponent.generate hands the response to _parse_ai_response
\* and returns its result
ParseResponse ==
    /\ last.op = "response"
    /\ last' = [op |-> "parsed", text |-> last.text,
                result |-> ParseAiResponse(last.text, "llama")]
    /\ UNCHANGED <<clock, win, reports, started, messages, inflight, scheduler, generated_at>>

----------------------------------------------------------------------------
(* ReportScheduler: the background loop the application starts *)

\* the position of thread t: not created, at the `while self.running`
\* test, inside the loop body, in time.sleep(check_interval), or returned
LoopPcs == {"unborn", "test", "body", "sleep", "done"}

\* the next thread threading.Thread(...) creates
NewThread == CHOOSE t \in Threads :
                 /\ scheduler.loops[t] = "unborn"
                 /\ \A u \in Threads : scheduler.loops[u] = "unborn" => t <= u

\* report_scheduler.start()
Start ==
    /\ ~scheduler.running => \E t \in Threads : scheduler.loops[t] = "unborn"
    /\ scheduler' = IF ~scheduler.running
                    THEN [running |-> TRUE, thread |-> NewThread,
                          loops |-> [scheduler.loops EXCEPT ![NewThread] = "test"]]
                    ELSE scheduler
    /\ last' = [op |-> "scheduler_start", created |-> ~scheduler.running]
    /\ UNCHANGED <<clock, win, reports, started, messages, inflight, generated_at>>

\* report_scheduler.stop(): the flag is cleared, then self.thread is joined
\* for at most 5 seconds. Within the join a thread at the loop test sees the
\* cleared flag and returns and a thread inside the body reaches its sleep;
\* a thread sleeping for check_interval = 60 seconds wakes within the join
\* (woke) or outlasts it
Stop ==
    \E woke \in BOOLEAN :
        LET t == scheduler.thread
            pc == IF t = 0 THEN "unborn" ELSE scheduler.loops[t]
            joined == IF pc = "test" THEN "done"
                      ELSE IF pc = "body" THEN "sleep"
                      ELSE IF pc = "sleep" /\ woke THEN "done"
                      ELSE pc
        IN
        /\ woke => pc = "sleep"
        /\ scheduler' = [scheduler EXCEPT
                            !.running = FALSE,
                            !.loops = IF t = 0 THEN @ ELSE [@ EXCEPT ![t] = joined]]
        /\ last' = [op |-> "scheduler_stop", joined |-> joined]
        /\ UNCHANGED <<clock, win, reports, started, messages, inflight, generated_at>>

\* _run: thread t evaluates `while self.running`
LoopTest(t) ==
    /\ scheduler.loops[t] = "test"
    /\ scheduler' = [scheduler EXCEPT
                        !.loops[t] = IF scheduler.running THEN "body" ELSE "done"]
    /\ last' = [op |-> "loop_test", thread |-> t, running |-> scheduler.running]
    /\ UNCHANGED <<clock, win, reports, started, messages, inflight, generated_at>>

\* _run: thread t runs one tick. check_and_generate_reports raises
\* AttributeError at ChatWindow.is_active before it loads any window; the
\* except clause of _run prints it and the thread goes to sleep
LoopBody(t) ==
    /\ scheduler.loops[t] = "body"
    /\ scheduler' = [scheduler EXCEPT !.loops[t] = "sleep"]
    /\ last' = [op |-> "loop_tick", thread |-> t, raised |-> TRUE]
    /\ UNCHANGED <<clock, win, reports, started, messages, inflight, generated_at>>

\* _run: time.sleep(check_interval) of thread t returns
LoopWake(t) ==
    /\ scheduler.loops[t] = "sleep"
    /\ scheduler' = [scheduler EXCEPT !.loops[t] = "test"]
    /\ last' = [op |-> "loop_wake", thread |-> t]
    /\ UNCHANGED <<clock, win, reports, started, messages, inflight, generated_at>>

\* any step of any loop thread
LoopStep == \E t \in Threads : LoopTest(t) \/ LoopBody(t) \/ LoopWake(t)

----------------------------------------------------------------------------
(* report_utils: the check for an existing Report and the creation of one
   as separate steps, so that executions can interleave between them *)

RECURSIVE ProcessWindowsUpTo(_, _, _, _, _)
\* the loop of finalize_expired_windows from window i up to, not
\* including, window j
ProcessWindowsUpTo(t, i, j, now, plan) ==
    IF i >= j \/ t.raised # 0 THEN t
    ELSE IF ~win[i].present THEN ProcessWindowsUpTo(t, i + 1, j, now, plan)
    ELSE ProcessWindowsUpTo(ProcessWindow(t, i, now, plan), i + 1, j, now, plan)

\* a pass from its start up to the existing-report query for window w:
\* the windows before w are processed, w is synced
SweepPrefix(w, now, plan) ==
    LET t == ProcessWindowsUpTo([s |-> FreshSession, changed |-> FALSE,
                                 processed |-> {}, attempted |-> {}, raised |-> 0],
                                1, w, now, plan)
        previous_status == t.s.sess[w]
        current_status ==
            SyncedWindow([win[w] EXCEPT !.status = previous_status], now, now).status
    IN [t EXCEPT !.s.sess[w] = current_status,
                 !.changed = @ \/ previous_status # current_status]

\* the try block with a second look at the Report rows before it creates
CreateAfterRecheck(t, w, plan) ==
    LET r == SaveReport(t.s, w, plan[w]) IN
    IF t.s.reports[w] > 0
    THEN [t EXCEPT !.s.sess[w] = "report_ready",
                   !.processed = @ \cup {w}, !.changed = TRUE]
    ELSE IF r.raised
    THEN [t EXCEPT !.s = Rollback(r.s), !.attempted = @ \cup {w}, !.raised = w]
    ELSE [t EXCEPT !.s = [r.s EXCEPT !.sess[w] = "report_ready"],
                   !.attempted = @ \cup {w},
                   !.processed = @ \cup {w}, !.changed = TRUE]

\* the try block of the loop body, entered with `existing_report` None:
\* save_report, then the status
CreateAfterCheck(t, w, plan) ==
    LET r == SaveReport(t.s, w, plan[w]) IN
    IF r.raised
    THEN [t EXCEPT !.s = Rollback(r.s), !.attempted = @ \cup {w}, !.raised = w]
    ELSE [t EXCEPT !.s = [r.s EXCEPT !.sess[w] = "report_ready"],
                   !.attempted = @ \cup {w},
                   !.processed = @ \cup {w}, !.changed = TRUE]

\* the executions paused between check and create
Paused(op) == {e \in inflight : e.op = op}

\* finalize_expired_windows up to the point where it has found no Report
\* for the expired window w (line 45); the saves of earlier windows have
\* committed, the other status changes are pending in the pass's session
FinalizeCheck(w) ==
    \E plan \in [ExpiredWindows(clock) -> TickScripts] :
        LET t == SweepPrefix(w, clock, plan) IN
        /\ win[w].present
        /\ Paused("finalize") = {}
        /\ t.raised = 0
        /\ t.s.sess[w] = "generating_report"
        /\ t.s.reports[w] = 0
        /\ win' = [v \in Windows |-> [win[v] EXCEPT !.status = t.s.db[v]]]
        /\ reports' = t.s.reports
        /\ generated_at' = GeneratedAt(reports')
        /\ inflight' = inflight \cup
               {[op |-> "finalize", id |-> w, now |-> clock,
                 pending |-> [v \in Windows |-> IF t.s.sess[v] # t.s.db[v]
                                                THEN t.s.sess[v] ELSE "clean"],
                 changed |-> t.changed, processed |-> t.processed,
                 attempted |-> t.attempted]}
        /\ last' = [op |-> "finalize_check", w |-> w]
        /\ UNCHANGED <<clock, started, messages, scheduler>>

\* the rest of that pass: save_report for w without a second look, the
\* remaining windows, the final commit. The session reads the rows as they
\* are now, except for its own pending changes
FinalizeCreate(e) ==
    \E plan \in [ExpiredWindows(e.now) \cup {e.id} -> TickScripts], final_ok \in BOOLEAN :
        LET w == e.id
            s == [db |-> [v \in Windows |-> win[v].status],
                  sess |-> [v \in Windows |-> IF e.pending[v] = "clean"
                                              THEN win[v].status ELSE e.pending[v]],
                  reports |-> reports,
                  generated |-> 0]
            t0 == [s |-> s, changed |-> e.changed, processed |-> e.processed,
                   attempted |-> e.attempted, raised |-> 0]
            t1 == CreateAfterCheck(t0, w, plan)
            t2 == ProcessWindows(t1, w + 1, e.now, plan)
            commits == t2.raised = 0 /\ t2.changed
            status == IF commits /\ final_ok THEN t2.s.sess ELSE t2.s.db
        IN
        /\ e \in Paused("finalize")
        /\ reports[w] < MaxReports
        /\ final_ok \/ commits
        /\ win' = [v \in Windows |-> [win[v] EXCEPT !.status = status[v]]]
        /\ reports' = t2.s.reports
        /\ generated_at' = GeneratedAt(reports')
        /\ inflight' = inflight \ {e}
        /\ last' = [op |-> "finalize_create", w |-> w, raised |-> t2.raised,
                    script |-> plan[w], had |-> reports[w]]
        /\ UNCHANGED <<clock, started, messages, scheduler>>

\* report_utils.generate_report_for_window(w) up to the query for an
\* existing Report (line 15): a missing window raises, an existing Report
\* leads straight to the status and the commit, otherwise the report is
\* still to be created
GenerateReportCheck(w) ==
    \E commit_ok \in BOOLEAN :
        /\ Paused("manual") = {}
        /\ commit_ok \/ (win[w].present /\ reports[w] > 0)
        /\ win' = IF win[w].present /\ reports[w] > 0 /\ commit_ok
                  THEN [win EXCEPT ![w].status = "report_ready"] ELSE win
        /\ inflight' = IF win[w].present /\ reports[w] = 0
                       THEN inflight \cup {[op |-> "manual", id |-> w]} ELSE inflight
        /\ last' = [op |-> "manual_check", w |-> w,
                    raised |-> ~win[w].present \/ ~commit_ok,
                    existing |-> win[w].present /\ reports[w] > 0]
        /\ UNCHANGED <<clock, reports, started, messages, scheduler, generated_at>>

\* the call after the check with the status set whatever save_report did
GenerateReportForWindowEager(w, script, commit_ok) ==
    LET r == SaveReport(FreshSession, w, script) IN
    [r EXCEPT !.s = IF commit_ok
                    THEN Commit([r.s EXCEPT !.sess[w] = "report_ready"])
                    ELSE r.s,
              !.raised = r.raised \/ ~commit_ok]

\* the call after the check: save_report(w), and after a successful save only
\* the status and the commit
GenerateReportForWindow(w, script, commit_ok) ==
    LET r == SaveReport(FreshSession, w, script) IN
    IF r.raised THEN r
    ELSE [r EXCEPT !.s = IF commit_ok
                         THEN Commit([r.s EXCEPT !.sess[w] = "report_ready"])
                         ELSE r.s,
                   !.raised = ~commit_ok]

\* the rest of generate_report_for_window for a paused call
GenerateReportCreate(e) ==
    \E script \in TickScripts, commit_ok \in BOOLEAN :
        LET w == e.id
            r == GenerateReportForWindow(w, script, commit_ok)
        IN
        /\ e \in Paused("manual")
        /\ reports[w] < MaxReports
        /\ commit_ok \/ r.s.reports[w] > reports[w]
        /\ win' = [v \in Windows |-> [win[v] EXCEPT !.status = r.s.db[v]]]
        /\ reports' = r.s.reports
        /\ generated_at' = GeneratedAt(reports')
        /\ inflight' = inflight \ {e}
        /\ last' = [op |-> "manual_create", w |-> w, raised |-> r.raised,
                    script |-> script, had |-> reports[w]]
        /\ UNCHANGED <<clock, started, messages, scheduler>>

Next ==
    \/ Advance
    \/ \E w \in Windows, now \in Times : SyncStatus(w, now)
    \/ Tick
    \/ CheckAndGenerateReports
    \/ \E w \in Windows, script \in SaveScripts : SaveReportCall(w, script)
    \/ \E actor \in Users, w \in Windows :
           \E script \in RequestScripts(actor, w) :
               GenerateUnifiedWindowReport(actor, w, script)
    \/ \E actor \in Users, c \in Convs, limits \in SendLimits :
           SendMessage(actor, c, limits)
    \/ \E actor \in Users, c \in Convs, limits \in SendLimits :
           SendMessageBegin(actor, c, limits)
    \/ \E c \in Convs : SendMessageFinish(c)
    \/ \E actor \in Users, patient_id \in Users : CanAccessPatientCall(actor, patient_id)
    \/ \E w \in Windows, now \in Times \cup {None} : ComputeStatusCall(w, now)
    \/ \E actor \in Users, patient_id \in Users, w \in Windows,
          start_date \in InputDates, end_date \in InputDates, config \in InputConfigs :
           CreateChatWindow(actor, patient_id, w, start_date, end_date, config)
    \/ \E actor \in Users, w \in Windows,
          data \in DateUpdates \cup VisibleUpdates \cup ConfigUpdates :
           UpdateChatWindow(actor, w, data)
    \/ \E actor \in Users, w \in Windows : DeleteChatWindowCheck(actor, w)
    \/ \E w \in Windows : DeleteChatWindowCommit(w)
    \/ \E actor \in Users, c \in Convs : StartConversationFromTemplate(actor, c)
    \/ \E actor \in Users, w \in Windows, config \in InputConfigs :
           WindowReportConfig(actor, w, config)
    \/ \E w \in Windows, run \in Runs : GenerateDocument(w, run)
    \/ \E rows \in StatsRows \cup NlpRows : LoadData(rows)
    \/ DescriptiveStatsGenerate
    \/ NlpAnalysisGenerate
    \/ \E w \in Windows, script \in SaveScripts, run \in Runs :
           \E rows \in WindowRows(w, StatsRows \cup NlpRows) :
               SaveReportDocument(w, script, run, rows)
    \/ \E actor \in Users : GetReportHtml(actor)
    \/ \E text \in ThemeTexts : ReceiveResponse(text)
    \/ ParseResponse
    \/ Start
    \/ Stop
    \/ \E t \in Threads : LoopTest(t)
    \/ \E t \in Threads : LoopBody(t)
    \/ \E t \in Threads : LoopWake(t)
    \/ \E w \in Windows : FinalizeCheck(w)
    \/ \E e \in Paused("finalize") : FinalizeCreate(e)
    \/ \E w \in Windows : GenerateReportCheck(w)
    \/ \E e \in Paused("manual") : GenerateReportCreate(e)

Spec == Init /\ [][Next]_vars

\* the scheduler alone: passes of finalize_expired_windows as time moves on
NextSched ==
    \/ Advance
    \/ Tick

SpecSched == Init /\ [][NextSched]_vars

\* sync_status alone, called with non-decreasing `now`
NextSync ==
    \/ Advance
    \/ \E w \in Windows, now \in Times : SyncStatus(w, now)

SpecSync == Init /\ [][NextSync]_vars

\* save_report alone
NextSave ==
    \/ \E w \in Windows, script \in SaveScripts : SaveReportCall(w, script)

SpecSave == Init /\ [][NextSave]_vars

\* message sending while the scheduler advances the windows
NextSend ==
    \/ Advance
    \/ Tick
    \/ \E actor \in Users, c \in Convs, limits \in SendLimits :
           SendMessage(actor, c, limits)

SpecSend == Init /\ [][NextSend]_vars

\* the access predicate alone
NextAccess ==
    \/ \E actor \in Users, patient_id \in Users : CanAccessPatientCall(actor, patient_id)

SpecAccess == Init /\ [][NextAccess]_vars

\* status evaluation and synchronisation as time moves on
NextStatus ==
    \/ Advance
    \/ \E w \in Windows, now \in Times : SyncStatus(w, now)
    \/ \E w \in Windows, now \in Times \cup {None} : ComputeStatusCall(w, now)

SpecStatus == Init /\ [][NextStatus]_vars

\* the window the edits, configuration and generation requests are made
\* for: the one a conversation belongs to
ReportWindows == {ConvWindow(1)}

\* message sending with its LLM call in progress while time passes, the
\* provider edits the end date of that conversation's window and the
\* scheduler runs
NextConc ==
    \/ Advance
    \/ Tick
    \/ \E actor \in Users, w \in ReportWindows, data \in EndDateUpdates :
           UpdateChatWindow(actor, w, data)
    \/ \E actor \in Users, c \in Convs, limits \in SendLimits :
           SendMessageBegin(actor, c, limits)
    \/ \E c \in Convs : SendMessageFinish(c)

SpecConc == Init /\ [][NextConc]_vars

\* report generation for a window whose configuration is edited and whose
\* conversation receives messages
NextReport ==
    \/ Advance
    \/ \E actor \in Users, c \in {d \in Convs : ConvWindow(d) \in ReportWindows},
          limits \in SendLimits : SendMessage(actor, c, limits)
    \/ \E actor \in Users, w \in ReportWindows, config \in InputConfigs :
           WindowReportConfig(actor, w, config)
    \/ \E w \in ReportWindows, run \in Runs : GenerateDocument(w, run)

SpecReport == Init /\ [][NextReport]_vars

\* providers creating, editing and deleting windows with dates of their
\* choice
NextDates ==
    \/ \E actor \in Users, patient_id \in Users, w \in Windows,
          start_date \in InputDates, end_date \in InputDates :
           CreateChatWindow(actor, patient_id, w, start_date, end_date, <<>>)
    \/ \E actor \in Users, w \in Windows, data \in DateUpdates \cup VisibleUpdates :
           UpdateChatWindow(actor, w, data)
    \/ \E actor \in Users, w \in Windows : DeleteChatWindowCheck(actor, w)
    \/ \E w \in Windows : DeleteChatWindowCommit(w)

SpecDates == Init /\ [][NextDates]_vars

\* every write path of a window's report configuration
NextConfig ==
    \/ \E actor \in Users, patient_id \in Users, w \in Windows, config \in InputConfigs :
           CreateChatWindow(actor, patient_id, w, 1, MaxTime - 2, config)
    \/ \E actor \in Users, w \in Windows, data \in ConfigUpdates :
           UpdateChatWindow(actor, w, data)
    \/ \E actor \in Users, w \in Windows, config \in InputConfigs :
           WindowReportConfig(actor, w, config)
    \/ \E actor \in Users, w \in Windows : DeleteChatWindowCheck(actor, w)
    \/ \E w \in Windows : DeleteChatWindowCommit(w)

SpecConfig == Init /\ [][NextConfig]_vars

\* a provider deleting a window while the patient starts a conversation in
\* it and posts, and reports are saved for window ids whose row is gone
NextMissing ==
    \/ Advance
    \/ \E actor \in Users, w \in Windows : DeleteChatWindowCheck(actor, w)
    \/ \E w \in Windows : DeleteChatWindowCommit(w)
    \/ \E actor \in Users, c \in Convs : StartConversationFromTemplate(actor, c)
    \/ \E actor \in Users, c \in Convs, limits \in SendLimits :
           SendMessage(actor, c, limits)
    \/ \E w \in {v \in Windows : ~win[v].present},
          script \in {sc \in SaveScripts : sc.gen_raises \/ sc.commits[1] = "ok"} :
           SaveReportCall(w, script)

SpecMissing == Init /\ [][NextMissing]_vars

\* one window configuration, for the specifications of the pure functions
InitFixed ==
    /\ Init
    /\ \A w \in Windows : win[w].start = 2 /\ win[w].end = 3 /\ win[w].visible

\* the Descriptive Stats component alone
NextStats ==
    \/ \E rows \in StatsRows : LoadData(rows)
    \/ DescriptiveStatsGenerate

SpecStats == InitFixed /\ [][NextStats]_vars

\* the NLP Analysis component alone
NextNlp ==
    \/ \E rows \in NlpRows : LoadData(rows)
    \/ NlpAnalysisGenerate

SpecNlp == InitFixed /\ [][NextNlp]_vars

\* the generations whose document is saved and rendered: every way a
\* component can end, with an empty or a well-formed model response
RoundTripRuns == {run \in Runs : run.text \in {<<>>, WellFormedResponse}}

\* the Message rows of those documents
RoundTripRows == MessageRows({1}, {1}, {0 - 50, 50})

\* a report saved for a window that has received messages, then rendered
NextRoundTrip ==
    \/ Advance
    \/ \E actor \in {Patient}, c \in {d \in Convs : ConvWindow(d) \in ReportWindows},
          limits \in SendLimits : SendMessage(actor, c, limits)
    \/ \E w \in ReportWindows, script \in {sc \in TickScripts : sc.commits[1] = "ok"},
          run \in RoundTripRuns :
           \E rows \in WindowRows(w, RoundTripRows) :
               SaveReportDocument(w, script, run, rows)
    \/ \E actor \in Users : GetReportHtml(actor)

SpecRoundTrip == InitFixed /\ [][NextRoundTrip]_vars

\* the AI summary component parsing the responses of a model
NextThemes ==
    \/ \E text \in ThemeTexts : ReceiveResponse(text)
    \/ ParseResponse

SpecThemes == InitFixed /\ [][NextThemes]_vars

\* the scheduler object being started and stopped while its threads run
NextLoop ==
    \/ Start
    \/ Stop
    \/ \E t \in Threads : LoopTest(t)
    \/ \E t \in Threads : LoopBody(t)
    \/ \E t \in Threads : LoopWake(t)

SpecLoop == Init /\ [][NextLoop]_vars

\* the application after create_app(): the scheduler is started once and
\* never stopped, its loop keeps running and time passes
NextLive ==
    \/ Advance
    \/ Start
    \/ \E t \in Threads : LoopTest(t)
    \/ \E t \in Threads : LoopBody(t)
    \/ \E t \in Threads : LoopWake(t)

SpecLive ==
    /\ Init
    /\ [][NextLive]_vars
    /\ WF_vars(Advance)
    /\ WF_vars(Start)
    /\ WF_vars(LoopStep)

\* passes and generation calls that pause, for the window of ReportWindows,
\* between their check for an existing Report and the creation of one,
\* while whole passes run in between
NextRace ==
    \/ Advance
    \/ Tick
    \/ \E w \in ReportWindows : FinalizeCheck(w)
    \/ \E e \in Paused("finalize") : FinalizeCreate(e)
    \/ \E w \in ReportWindows : GenerateReportCheck(w)
    \/ \E e \in Paused("manual") : GenerateReportCreate(e)

SpecRace == InitFixed /\ [][NextRace]_vars

\* windows (with the dates of InitFixed) being created and deleted while
\* passes, manual generation calls and generation requests store reports,
\* with saves that fail or are retried
NextReady ==
    \/ Advance
    \/ Tick
    \/ \E w \in ReportWindows : GenerateReportCheck(w)
    \/ \E e \in Paused("manual") : GenerateReportCreate(e)
    \/ \E actor \in {Provider}, w \in ReportWindows :
          \E script \in RequestScripts(actor, w) :
              GenerateUnifiedWindowReport(actor, w, script)
    \/ \E actor \in {Provider}, w \in Windows : DeleteChatWindowCheck(actor, w)
    \/ \E w \in Windows : DeleteChatWindowCommit(w)
    \/ \E actor \in {Provider}, w \in Windows :
           CreateChatWindow(actor, Patient, w, 2, 3, <<>>)

SpecReady == InitFixed /\ [][NextReady]_vars


----------------------------------------------------------------------------
(* Properties *)

Nows == Times \cup {None}

\* a step that is one call of the named operation (Advance is the only step
\* that moves the clock, and the only one that leaves `last` alone)
OpStep(op) == clock' = clock /\ last'.op = op

\* C1: a window whose persisted status is generating_report or report_ready
\* gets exactly that status from compute_status for every now, and after any
\* further operation it is still never computed as scheduled or active
C1_StickyTerminal ==
    [][\A w \in Windows : win[w].status \in TerminalStatuses =>
          /\ \A now \in Nows : ComputeStatus(win[w], now, clock) = win[w].status
          /\ \A now \in Nows :
                /\ ComputeStatus(win'[w], now, clock') = win'[w].status
                /\ ComputeStatus(win'[w], now, clock') \notin {"scheduled", "active"}]_vars

\* C1 witness: a pass has synced a window that was already report_ready and
\* left it alone, while another window is still generating_report
C1_Witness ==
    /\ last.op = "tick"
    /\ \E w \in Windows : win[w].status = "report_ready" /\ w \notin last.processed
    /\ \E w \in Windows : win[w].status = "generating_report"

\* what C2 expects of a window whose persisted status is not terminal
ExpectedByClock(w, now) ==
    IF now < w.start THEN "scheduled"
    ELSE IF now <= w.end THEN "active"
    ELSE "generating_report"

\* C2: for a window persisted as scheduled or active, compute_status(now) is
\* scheduled before start_date, active from start_date to end_date inclusive,
\* generating_report after end_date, for every now
C2_ByClock ==
    \A w \in Windows, now \in Times :
        win[w].status \in {"scheduled", "active"} =>
            ComputeStatus(win[w], now, clock) = ExpectedByClock(win[w], now)

\* C3: over sync_status calls with non-decreasing now, the persisted status
\* of a window never moves back in scheduled < active < generating_report <
\* report_ready
C3_NoDowngrade ==
    [][\A w \in Windows, now \in Times :
          SyncStatus(w, now) => Rank(win'[w].status) >= Rank(win[w].status)]_vars


\* C4: after a pass that completes without raising, every window whose synced
\* status was generating_report is report_ready with a Report row, every
\* other non-terminal window has the computed status persisted, and no
\* Report was created for a window synced as scheduled, active or
\* report_ready
C4_TickPostcondition ==
    [][OpStep("tick") /\ last'.raised = 0 /\ ~last'.commit_raised =>
          \A w \in Windows :
              LET synced == SyncedWindow(win[w], clock, clock).status IN
              /\ synced = "generating_report" =>
                     win'[w].status = "report_ready" /\ reports'[w] >= 1
              /\ synced # "generating_report" /\ win[w].status \notin TerminalStatuses =>
                     win'[w].status = ComputeStatus(win[w], clock, clock)
              /\ synced \in {"scheduled", "active", "report_ready"} =>
                     reports'[w] = reports[w]]_vars

\* C5: passes that do not overlap create at most one Report row per window;
\* a pass that finds a Report for a generating_report window creates none,
\* does not call save_report for it, and changes nothing of the window
\* except to advance its status to report_ready
C5_OneReportPerWindow ==
    [][\A w \in Windows :
          /\ reports'[w] <= 1
          /\ OpStep("tick") /\ reports[w] >= 1 =>
                 /\ reports'[w] = reports[w]
                 /\ w \notin last'.attempted
                 /\ win'[w].status \in {win[w].status, "report_ready"}]_vars

\* C5 witness: a pass found the Report of a generating_report window and
\* advanced the window without calling save_report
C5_Witness ==
    /\ last.op = "tick"
    /\ \E w \in Windows :
          /\ w \in last.processed
          /\ w \notin last.attempted
          /\ reports[w] = 1
          /\ win[w].status = "report_ready"

\* C6: when save_report raises for one window, the pass still processes
\* every remaining window: it syncs its status and, where it is in
\* generating_report without a Report, calls save_report for it
C6_FailureIsolated ==
    [][OpStep("tick") /\ last'.raised # 0 =>
          \A v \in Windows : v > last'.raised =>
              IF v \in ExpiredWindows(clock)
              THEN reports[v] = 0 => v \in last'.attempted
              ELSE win'[v].status = SyncedWindow(win[v], clock, clock).status]_vars

\* C7: when save_report raises for a window, its persisted status after the
\* pass is the one before the pass and not report_ready, the pass leaves no
\* Report row for it, and the next pass calls save_report for it again
C7_FailedWindowRetried ==
    [][\A w \in Windows :
          /\ OpStep("tick") /\ last'.raised = w =>
                 /\ win'[w].status = win[w].status
                 /\ win'[w].status # "report_ready"
                 /\ reports'[w] = reports[w]
          /\ last.op = "tick" /\ last.raised = w /\ OpStep("tick") =>
                 w \in last'.attempted]_vars

\* the number of leading 'database is locked' outcomes of a commit script
LeadingLocked(commits) ==
    Cardinality({i \in 1..ScriptLen : \A j \in 1..i : commits[j] = "locked"})

\* C8: save_report generates once and commits at most 3 times, retrying only
\* after 'database is locked' on attempt 1 or 2; success persists exactly one
\* Report row; a lock error on attempt 3 or any other error persists none and
\* reaches the caller
C8_SaveReportRetry ==
    [][OpStep("save") =>
              LET w == last'.w
                  script == last'.script
                  k == LeadingLocked(script.commits)
                  tries == IF script.gen_raises THEN 0 ELSE IF k >= 3 THEN 3 ELSE k + 1
                  succeeds == ~script.gen_raises /\ k < 3 /\ script.commits[k + 1] = "ok"
              IN /\ last'.generated = 1
                 /\ last'.attempts = tries
                 /\ last'.attempts <= 3
                 /\ succeeds => ~last'.raised /\ reports' = [reports EXCEPT ![w] = @ + 1]
                 /\ ~succeeds => last'.raised /\ reports' = reports]_vars

\* C8 witness: a save that hit the lock twice and committed on attempt 3
C8_Witness ==
    /\ last.op = "save"
    /\ last.attempts = 3
    /\ ~last.raised
    /\ \E w \in Windows : reports[w] >= 1

\* C9: a send into a conversation of an existing window stores nothing and is
\* answered 403 unless the window is visible and its computed status is
\* active, whoever the actor is
C9_ClosedWindowRejects ==
    [][OpStep("send") => \A actor \in Users, c \in Convs, limits \in SendLimits :
          (/\ ConvWindow(c) \in Windows
           /\ ~(/\ win[ConvWindow(c)].visible
                /\ ComputeStatus(win[ConvWindow(c)], None, clock) = "active")
           /\ SendMessage(actor, c, limits))
          => messages' = messages /\ last'.code = 403]_vars

\* C9 witness: a send into a conversation whose window is report_ready was
\* answered 403 and nothing is stored in it
C9_Witness ==
    /\ last.op = "send"
    /\ last.code = 403
    /\ \E c \in Convs :
          /\ ConvWindow(c) \in Windows
          /\ win[ConvWindow(c)].visible
          /\ win[ConvWindow(c)].status = "report_ready"
          /\ messages[c] = 0

\* C10: a send by an actor who is not the conversation's owner is rejected
\* and stores nothing, whatever the actor's role and the window's state
C10_OnlyOwnerSends ==
    [][OpStep("send") => \A actor \in Users, c \in Convs, limits \in SendLimits :
          actor # ConvOwner(c) /\ SendMessage(actor, c, limits)
          => messages' = messages /\ last'.code = 403]_vars

\* C11: can_access_patient(actor, patient_id) is true exactly when the actor
\* is an admin, or a provider assigned to patient_id, or the actor's own id
\* equals patient_id whatever the actor's role; the call changes no state
C11_AccessExactly ==
    [][OpStep("access") =>
          /\ last'.result =
                 (\/ Role(last'.actor) = "admin"
                  \/ /\ Role(last'.actor) = "provider"
                     /\ <<last'.actor, last'.patient_id>> \in Assignments
                  \/ last'.actor = last'.patient_id)
          /\ UNCHANGED <<clock, win, reports, started, messages, inflight, scheduler, generated_at>>]_vars

\* C12: whenever messages are added to a conversation that references an
\* existing window, that window's computed status is active at that moment
\* and its persisted status is neither generating_report nor report_ready,
\* whatever happened between the request's window check and the store
C12_StoredWhileActive ==
    [][\A c \in Convs :
          (/\ messages'[c] > messages[c]
           /\ ConvWindow(c) \in Windows
           /\ win[ConvWindow(c)].present)
          => /\ ComputeStatus(win[ConvWindow(c)], None, clock) = "active"
             /\ win[ConvWindow(c)].status \notin TerminalStatuses]_vars

\* the components a generation for window w runs
EnabledComponents(w) ==
    {name \in ComponentNames : Truthy(ConfigGet(win[w].report_config, name))}

\* the enabled component that failed in the generation `last` reports
FailedComponent(l) == IF l.load_fails # "none" THEN l.load_fails ELSE l.gen_fails

\* C13: when one enabled component fails during generate, generate returns
\* a document whose slot for that component is {'error': message} and
\* whose other enabled components all have their results stored
C13_ComponentFailureIsolated ==
    [][OpStep("document") /\ FailedComponent(last') \in EnabledComponents(last'.w) =>
          /\ ~last'.raised
          /\ DOMAIN last'.components = EnabledComponents(last'.w)
          /\ DOMAIN last'.components[FailedComponent(last')] = {"error"}
          /\ \A name \in EnabledComponents(last'.w) \ {FailedComponent(last')} :
                 "error" \notin DOMAIN last'.components[name]]_vars

\* C14: the keys of a generated document's components map are exactly the
\* registered component names whose configuration value is true; disabled,
\* missing and unregistered names have no entry
C14_ComponentsAreEnabledOnes ==
    [][OpStep("document") /\ ~last'.raised =>
          DOMAIN last'.components =
              {name \in ComponentNames :
                  /\ name \in DOMAIN win[last'.w].report_config
                  /\ win[last'.w].report_config[name] = "true"}]_vars

\* C15: with ai_summary enabled, messages in the window and no eligible
\* model, the document has no ai_summary key (no error entry, no null
\* entry) and every other enabled component is present
C15_NoModelOmitsSummary ==
    [][(/\ OpStep("document") /\ ~last'.raised
        /\ "ai_summary" \in EnabledComponents(last'.w)
        /\ WindowHasMessages(last'.w)
        /\ last'.model = "none") =>
          /\ "ai_summary" \notin DOMAIN last'.components
          /\ EnabledComponents(last'.w) \ {"ai_summary"} \subseteq DOMAIN last'.components]_vars

\* the elements of a sequence
Range(seq) == {seq[i] : i \in 1..Len(seq)}

C17_OnlyKnownConfigKeys ==
    \A w \in Windows : win[w].present =>
        DOMAIN win[w].report_config \subseteq
            {"ai_summary", "saved_messages", "descriptive_stats", "nlp_analysis"}

\* C18: every persisted window has start_date < end_date, whatever dates
\* the callers of create_chat_window and update_chat_window supplied
C18_StartBeforeEnd ==
    \A w \in Windows : win[w].present => win[w].start < win[w].end

\* C19: save_report for a window id that has no row raises and adds no
\* Report row, and a send into a conversation whose window_id names no
\* existing window is refused and stores nothing
C19_MissingWindowSurfaced ==
    [][/\ OpStep("save") /\ ~win[last'.w].present =>
              last'.raised /\ last'.generated = 0 /\ reports' = reports
       /\ OpStep("send") =>
              \A actor \in Users, c \in Convs, limits \in SendLimits :
                  (/\ ConvWindow(c) \in Windows
                   /\ ~win[ConvWindow(c)].present
                   /\ SendMessage(actor, c, limits))
                  => messages' = messages /\ last'.code # 200]_vars

\* C20: two evaluations of compute_status with the same window fields and
\* the same number as now (0 included) return the same status, whatever the
\* wall-clock time of each evaluation, and an evaluation changes no state
C20_PureOfInputs ==
    [][OpStep("compute") =>
          /\ UNCHANGED <<clock, win, reports, started, messages, inflight, scheduler, generated_at>>
          /\ (/\ last.op = "compute"
              /\ last'.w = last.w
              /\ last'.now = last.now
              /\ last'.now # None) => last'.result = last.result]_vars

\* C21: sync_status(now) writes the persisted status only when
\* compute_status(now) differs from it and changes nothing else, returns the
\* persisted status it leaves, and is idempotent: right after the call the
\* persisted status equals compute_status(now) and a second call with the
\* same now writes nothing
C21_SyncIdempotent ==
    [][\A w \in Windows, now \in Times :
          SyncStatus(w, now) =>
              LET computed == ComputeStatus(win[w], now, clock) IN
              /\ win' = [win EXCEPT ![w].status = computed]
              /\ win' # win <=> computed # win[w].status
              /\ UNCHANGED <<clock, reports, started, messages, inflight, scheduler, generated_at>>
              /\ last'.result = win'[w].status
              /\ win'[w].status = ComputeStatus(win'[w], now, clock')
              /\ SyncedWindow(win'[w], now, clock') = win'[w]]_vars

\* C21 witness: a sync has moved a window to generating_report and returned
\* that status; the window's end date lies before the `now` of the call
C21_Witness ==
    /\ last.op = "sync"
    /\ last.result = "generating_report"
    /\ win[last.w].status = "generating_report"
    /\ last.now > win[last.w].end

RECURSIVE DaySum(_)
\* the role counts of a messages_by_day dict, added up over its days
DaySum(by_day) ==
    IF DOMAIN by_day = {} THEN 0
    ELSE LET d == CHOOSE x \in DOMAIN by_day : TRUE IN
         by_day[d].user + by_day[d].assistant
         + DaySum([x \in DOMAIN by_day \ {d} |-> by_day[x]])

\* C22: for every non-empty set of message rows, the Descriptive Stats
\* output has user_messages + assistant_messages = total_messages, and the
\* per-day role counts of messages_by_day add up to total_messages
C22_StatsCountsAddUp ==
    [][OpStep("stats") /\ last'.rows # <<>> =>
          /\ last'.result.user_messages + last'.result.assistant_messages
                 = last'.result.total_messages
          /\ DaySum(last'.result.messages_by_day) = last'.result.total_messages]_vars

\* C22 witness: statistics over rows of two days, several of them equal
C22_Witness ==
    /\ last.op = "stats"
    /\ last.result.total_messages = 2 * MaxExchanges
    /\ Cardinality(DOMAIN last.result.messages_by_day) = 2
    /\ last.result.user_messages = MaxExchanges

RECURSIVE AddBits(_, _, _)
\* a + b + carry, in binary
AddBits(a, b, carry) ==
    LET t == BitsToInt(LowBits(a)) + BitsToInt(LowBits(b)) + carry IN
    IF Len(a) <= 12 /\ Len(b) <= 12 THEN ToBits(t)
    ELSE AddBits(HighBits(a), HighBits(b), t \div (2 ^ 12)) \o LowChunk(t % (2 ^ 12))

\* the significand of f rewritten for the exponent e <= f.e
Aligned(f, e) == IF f.m = <<>> THEN <<>> ELSE f.m \o Zeros(f.e - e)

\* a <= b for binary numbers without leading zeros
BitsLeq(a, b) ==
    \/ Len(a) < Len(b)
    \/ /\ Len(a) = Len(b)
       /\ \/ a = b
          \/ \E i \in 1..Len(a) : /\ \A j \in 1..(i - 1) : a[j] = b[j]
                                   /\ a[i] < b[i]

\* the exact sum of the three values of a sentiment_percentages dict, as a
\* binary number m and the exponent e of its last bit
PercentSum(pct) ==
    LET E == {f.e : f \in {g \in {pct.positive, pct.neutral, pct.negative} : g.m # <<>>}}
        emin == IF E = {} THEN 0 ELSE CHOOSE e \in E : \A d \in E : e <= d
    IN [m |-> AddBits(AddBits(Aligned(pct.positive, emin),
                              Aligned(pct.neutral, emin), 0),
                      Aligned(pct.negative, emin), 0),
        e |-> emin]

\* the sum of the three percentages is 100
SumIs100(pct) ==
    LET s == PercentSum(pct) IN
    s.m = <<1, 1, 0, 0, 1, 0, 0>> \o Zeros(0 - s.e)

\* the sum of the three percentages lies within 2^-40 of 100
SumNear100(pct) ==
    LET s == PercentSum(pct)
        lower == <<1, 1, 0, 0, 0, 1, 1>> \o [i \in 1..40 |-> 1] \o Zeros((0 - s.e) - 40)
        upper == <<1, 1, 0, 0, 1, 0, 0>> \o Zeros(39) \o <<1>> \o Zeros((0 - s.e) - 40)
    IN BitsLeq(lower, s.m) /\ BitsLeq(s.m, upper)

\* what C23 says of the buckets apart from the sum of the percentages: the
\* counts add up to message_count, and without user messages every count
\* and percentage is 0
BucketsPartition(r) ==
    /\ r.sentiment_distribution.positive + r.sentiment_distribution.neutral
           + r.sentiment_distribution.negative = r.message_count
    /\ r.message_count = 0 =>
           /\ r.sentiment_distribution = [positive |-> 0, neutral |-> 0, negative |-> 0]
           /\ r.sentiment_percentages =
                  [positive |-> ZeroFloat, neutral |-> ZeroFloat, negative |-> ZeroFloat]

\* C23 as amended: the sentiment counts add up to message_count, which is
\* the number of user messages; with at least one user message the three
\* percentages sum to 100 up to floating-point rounding (within 2^-40);
\* with none, all counts and percentages are 0
C23_PercentagesWithinRounding ==
    [][OpStep("nlp") =>
          /\ BucketsPartition(last'.result)
          /\ last'.result.message_count = CountRole(last'.rows, "user")
          /\ last'.result.message_count > 0 =>
                 SumNear100(last'.result.sentiment_percentages)]_vars

\* C23 as stated: the sentiment counts add up to message_count and the
\* three percentages sum to 100 when there is a user message; with none,
\* all counts and percentages are 0
C23_PercentagesSumTo100 ==
    [][OpStep("nlp") =>
          /\ BucketsPartition(last'.result)
          /\ last'.result.message_count > 0 =>
                 SumIs100(last'.result.sentiment_percentages)]_vars

\* C23 witness: an analysis of three user messages, one in each bucket,
\* whose percentages sum to a value next to 100 that is not 100
C23_Witness ==
    /\ last.op = "nlp"
    /\ last.result.message_count = 3
    /\ last.result.sentiment_distribution = [positive |-> 1, neutral |-> 1, negative |-> 1]
    /\ SumNear100(last.result.sentiment_percentages)
    /\ ~SumIs100(last.result.sentiment_percentages)

C25_AtMostFiveThemes ==
    last.op = "parsed" => Len(last.result.themes) <= MaxThemes

\* C26: for every window, once now > end_date, the background scheduler
\* started by the application eventually persists a Report for it and its
\* persisted status eventually becomes report_ready, given that the loop
\* keeps ticking.
C26_EventuallyReportReady ==
    \A w \in Windows :
        (clock > win[w].end) ~> (reports[w] >= 1 /\ win[w].status = "report_ready")

\* the threads that can still begin a tick
LiveLoops ==
    {t \in Threads : \/ scheduler.loops[t] = "body"
                     \/ scheduler.loops[t] \in {"test", "sleep"} /\ scheduler.running}

\* C28: after any sequence of start() and stop() calls at most one
\* background loop is able to begin another tick; start() while running
\* creates no thread.
C28_AtMostOneLiveLoop ==
    /\ Cardinality(LiveLoops) <= 1
    /\ last.op = "scheduler_start" /\ last.created => Cardinality(LiveLoops) = 1

\* the commit loop of save_report ends with a stored row under this script
Succeeds(script) ==
    /\ ~script.gen_raises
    /\ \E i \in 1..max_retries :
           /\ script.commits[i] = "ok"
           /\ \A j \in 1..(i - 1) : script.commits[j] = "locked"

\* C27: the check for an existing Report and the creation of one are not
\* atomic: an execution that saw no Report persists one whenever its save
\* succeeds, also when another execution has stored a Report in between,
\* so that a window gets two Report rows.
C27_CheckThenCreateNotAtomic ==
    [][\A w \in Windows :
          /\ OpStep("finalize_create") \/ OpStep("manual_create")
          /\ last'.w = w
          /\ win[w].present
          /\ Succeeds(last'.script)
          => /\ last'.had = reports[w]
             /\ reports'[w] = reports[w] + 1
             /\ Len(generated_at'[w]) = reports'[w]]_vars

\* C27 witness: a create step that stored a second row for a window whose
\* first row was stored after the step's own check
C27_Witness ==
    /\ last.op \in {"finalize_create", "manual_create"}
    /\ last.had = 1
    /\ reports[last.w] = 2
    /\ Len(generated_at[last.w]) = 2

\* C29: in every reachable persisted state a window whose persisted status
\* is report_ready has at least one Report row.
C29_ReadyHasReport ==
    \A w \in Windows :
        win[w].present /\ win[w].status = "report_ready" =>
            reports[w] >= 1 /\ Len(generated_at[w]) = reports[w]

\* C29 witness: a generation call whose save met a locked database, was
\* retried and then advanced the window to report_ready
C29_Witness ==
    /\ last.op = "manual_create"
    /\ ~last.raised
    /\ last.script.commits[1] = "locked"
    /\ win[last.w].status = "report_ready"
    /\ reports[last.w] >= 1

\* C30: for every window whose persisted status is report_ready, the
\* Report that stands for it (the first row of the window) was generated at
\* or after the window's end_date.
C30_ReportGeneratedAfterEnd ==
    \A w \in Windows :
        win[w].present /\ win[w].status = "report_ready" /\ generated_at[w] # <<>> =>
            generated_at[w][1] >= win[w].end
====
